---- MODULE Spec2Model ----
(***************************************************************************)
(* Model of the R2 Data Gateway (src/app.py): the request-to-query         *)
(* compiler (quote_ident, read_table_sql, build_filter_sql,                *)
(* ensure_order_by) and the /schema, /preview and /query handlers with     *)
(* their engine connection.                                                *)
(*                                                                         *)
(* Text is a sequence of fragments.  Text that comes from a request, the   *)
(* catalog or a Python conversion is one character per fragment; a literal *)
(* piece of a Python f-string template of the source is one fragment.      *)
(* Concatenation is \o, as + and f-strings are in the source.              *)
(***************************************************************************)
EXTENDS Integers, Sequences, FiniteSets, TLC

\* ------------------------------------------------------------------ bounds
MaxDatasets == 2
MaxRows == 4
MaxPage == 3
MaxSmallSize == 3
MaxListLen == 2
MaxOrderBy == 2

\* ------------------------------------------------------------- text helpers
LowerLetters ==
  <<"a","b","c","d","e","f","g","h","i","j","k","l","m",
    "n","o","p","q","r","s","t","u","v","w","x","y","z">>

UpperLetters ==
  <<"A","B","C","D","E","F","G","H","I","J","K","L","M",
    "N","O","P","Q","R","S","T","U","V","W","X","Y","Z">>

\* str.upper() on one character
UpperChar(c) ==
  IF \E i \in 1..26 : LowerLetters[i] = c
  THEN UpperLetters[CHOOSE i \in 1..26 : LowerLetters[i] = c]
  ELSE c

\* str.lower() on one character
LowerChar(c) ==
  IF \E i \in 1..26 : UpperLetters[i] = c
  THEN LowerLetters[CHOOSE i \in 1..26 : UpperLetters[i] = c]
  ELSE c

Upper(s) == [i \in 1..Len(s) |-> UpperChar(s[i])]

Lower(s) == [i \in 1..Len(s) |-> LowerChar(s[i])]

IsSpace(c) == c \in {" ", "\t", "\n"}

RECURSIVE LStrip(_)
LStrip(s) ==
  IF s # <<>> /\ IsSpace(Head(s)) THEN LStrip(Tail(s)) ELSE s

RECURSIVE RStrip(_)
RStrip(s) ==
  IF s # <<>> /\ IsSpace(s[Len(s)]) THEN RStrip(SubSeq(s, 1, Len(s) - 1)) ELSE s

\* str.strip()
Strip(s) == RStrip(LStrip(s))

\* str.replace(c, r) for a one-character c
RECURSIVE Replace(_, _, _)
Replace(s, c, r) ==
  IF s = <<>> THEN <<>>
  ELSE (IF Head(s) = c THEN r ELSE <<Head(s)>>) \o Replace(Tail(s), c, r)

\* str.endswith(suffix)
EndsWith(s, suffix) ==
  /\ Len(s) >= Len(suffix)
  /\ SubSeq(s, Len(s) - Len(suffix) + 1, Len(s)) = suffix

\* sep.join(parts)
RECURSIVE Join(_, _)
Join(sep, parts) ==
  IF parts = <<>> THEN <<>>
  ELSE IF Len(parts) = 1 THEN parts[1]
  ELSE parts[1] \o sep \o Join(sep, Tail(parts))

Digits == <<"0","1","2","3","4","5","6","7","8","9">>

\* str(n) for n >= 0
RECURSIVE NatStr(_)
NatStr(n) ==
  IF n < 10 THEN <<Digits[n + 1]>>
  ELSE NatStr(n \div 10) \o <<Digits[(n % 10) + 1]>>

\* str(n) for a Python int
IntStr(n) == IF n < 0 THEN <<"-">> \o NatStr(0 - n) ELSE NatStr(n)

\* ------------------------------------------------------------ Python values
\* A JSON value of a request body: t is its Python type, n the number (an
\* int, the tenths of a float, 0/1 for a bool), s the text of a str, l the
\* elements of a list.
PyInt(n) == [t |-> "int", n |-> n, s |-> <<>>, l |-> <<>>]

PyFloat(tenths) == [t |-> "float", n |-> tenths, s |-> <<>>, l |-> <<>>]

PyBool(b) == [t |-> "bool", n |-> IF b THEN 1 ELSE 0, s |-> <<>>, l |-> <<>>]

PyStrVal(s) == [t |-> "str", n |-> 0, s |-> s, l |-> <<>>]

PyNone == [t |-> "none", n |-> 0, s |-> <<>>, l |-> <<>>]

PyList(l) == [t |-> "list", n |-> 0, s |-> <<>>, l |-> l]

\* isinstance(v, list)
IsList(v) == v.t = "list"

\* isinstance(v, bool)
IsBool(v) == v.t = "bool"

\* isinstance(v, (int, float)): bool is a subclass of int
IsIntOrFloat(v) == v.t \in {"int", "float", "bool"}

\* str(x) of a float with one decimal, given in tenths
FloatStr(tenths) ==
  IF tenths < 0
  THEN <<"-">> \o NatStr((0 - tenths) \div 10) \o <<".">> \o NatStr((0 - tenths) % 10)
  ELSE NatStr(tenths \div 10) \o <<".">> \o NatStr(tenths % 10)

\* repr(s) of a str: double quotes when s has a single and no double quote,
\* else single quotes with backslash and single quote escaped
StrRepr(s) ==
  IF (\E i \in 1..Len(s) : s[i] = "'") /\ ~(\E i \in 1..Len(s) : s[i] = "\"")
  THEN <<"\"">> \o s \o <<"\"">>
  ELSE <<"'">> \o Replace(Replace(s, "\\", <<"\\", "\\">>), "'", <<"\\", "'">>) \o <<"'">>

\* str(v) of a scalar
ScalarStr(v) ==
  CASE v.t = "int" -> IntStr(v.n)
    [] v.t = "float" -> FloatStr(v.n)
    [] v.t = "bool" -> IF v.n = 1 THEN <<"T","r","u","e">> ELSE <<"F","a","l","s","e">>
    [] v.t = "none" -> <<"N","o","n","e">>
    [] OTHER -> v.s

\* str(v): a list prints the repr of its elements
PyStr(v) ==
  IF v.t = "list"
  THEN <<"[">> \o Join(<<",", " ">>,
                       [i \in 1..Len(v.l) |->
                          IF v.l[i].t = "str" THEN StrRepr(v.l[i].s)
                          ELSE ScalarStr(v.l[i])]) \o <<"]">>
  ELSE ScalarStr(v)

\* ------------------------------------------------------------------ helpers
\* quote_ident(name)
quote_ident(name) == <<"\"">> \o Replace(name, "\"", <<"\"", "\"">>) \o <<"\"">>

\* s3.generate_presigned_url: the object's URL followed by the signing
\* query parameters (expiry and signature)
r2_signed_url(key) ==
  <<"https://acct.r2.cloudflarestorage.com/bucket/">> \o key
    \o <<"?X-Amz-Expires=3600&X-Amz-Signature=">> \o <<"0", "f">>

\* The value None of an Optional[str] (a format that is never compared as text)
None == "<None>"

\* read_table_sql(url, fmt, coerce)
read_table_sql(url, fmt, coerce) ==
  IF fmt = "parquet"
     \/ (fmt = None /\ EndsWith(Lower(url), <<".","p","a","r","q","u","e","t">>))
  THEN <<"parquet_scan('">> \o url \o <<"')">>
  ELSE IF coerce = "all_varchar"
  THEN <<"read_csv_auto('">> \o url \o <<"', HEADER=TRUE, ALL_VARCHAR=TRUE)">>
  ELSE <<"read_csv_auto('">> \o url \o <<"', HEADER=TRUE)">>

\* One literal of build_filter_sql's IN / NOT IN list (lines 113-116)
in_item_sql(v) ==
  IF IsIntOrFloat(v) /\ ~IsBool(v)
  THEN PyStr(v)
  ELSE <<"'">> \o Replace(PyStr(v), "'", <<"'", "'">>) \o <<"'">>

\* One bound of build_filter_sql's BETWEEN (lines 120-121)
between_sql(v) ==
  IF IsIntOrFloat(v)
  THEN PyStr(v)
  ELSE <<"'">> \o Replace(PyStr(v), "'", <<"'", "'">>) \o <<"'">>

\* The literal of build_filter_sql's default scalar branch (lines 124-127)
scalar_sql(v) ==
  IF IsIntOrFloat(v) /\ ~IsBool(v)
  THEN PyStr(v)
  ELSE <<"'">> \o Replace(PyStr(v), "'", <<"'", "'">>) \o <<"'">>

\* f.get("op", "=").upper().strip()
filter_op(f) == Strip(Upper(IF f.has_op THEN f.op ELSE <<"=">>))

\* build_filter_sql(f): raised is TRUE when the call raises (KeyError of
\* f["col"]), else text is the clause it returns
build_filter_sql(f) ==
  IF ~f.has_col THEN [raised |-> TRUE, text |-> <<>>]
  ELSE
    LET col == quote_ident(f.col)
        op == filter_op(f)
        val == f.value
    IN IF op \in {<<"I","N">>, <<"N","O","T"," ","I","N">>} /\ IsList(val)
       THEN [raised |-> FALSE,
             text |-> col \o <<" ">> \o op \o <<" (">>
                        \o Join(<<", ">>, [i \in 1..Len(val.l) |-> in_item_sql(val.l[i])])
                        \o <<")">>]
       ELSE IF op = <<"B","E","T","W","E","E","N">> /\ IsList(val) /\ Len(val.l) = 2
       THEN [raised |-> FALSE,
             text |-> col \o <<" BETWEEN ">> \o between_sql(val.l[1])
                        \o <<" AND ">> \o between_sql(val.l[2])]
       ELSE [raised |-> FALSE,
             text |-> col \o <<" ">> \o op \o <<" ">> \o scalar_sql(val)]

\* An entry whose direction is compared without upper-casing it
order_part_case_sensitive(ob) ==
  LET c == quote_ident(ob.col)
      d0 == IF ob.has_dir THEN ob.dir ELSE <<"a","s","c">>
      d == IF d0 \notin {<<"A","S","C">>, <<"D","E","S","C">>} THEN <<"A","S","C">> ELSE d0
  IN c \o <<" ">> \o d

\* One entry of ensure_order_by's list (lines 134-138)
order_part(ob) ==
  LET c == quote_ident(ob.col)
      d0 == Upper(IF ob.has_dir THEN ob.dir ELSE <<"a","s","c">>)
      d == IF d0 \notin {<<"A","S","C">>, <<"D","E","S","C">>} THEN <<"A","S","C">> ELSE d0
  IN c \o <<" ">> \o d

\* ensure_order_by(select_cols, order_by); order_by.given is FALSE for None
ensure_order_by(select_cols, order_by) ==
  IF order_by.given /\ order_by.items # <<>>
  THEN <<" ORDER BY ">>
         \o Join(<<", ">>, [i \in 1..Len(order_by.items) |-> order_part(order_by.items[i])])
  ELSE IF select_cols # <<>>
  THEN <<" ORDER BY ">> \o quote_ident(select_cols[1]) \o <<" ASC">>
  ELSE <<>>

\* normalize_cols(df, case) on the column names of a result
normalize_cols(cols, case) ==
  IF case = "lower" THEN [i \in 1..Len(cols) |-> Lower(cols[i])] ELSE cols

\* ------------------------------------------------------------------ catalog
KeyCsv == <<"c",".","c","s","v">>

KeyParquet == <<"a",".","p","a","r","q","u","e","t">>

KeyParquetUpper == <<"b",".","P","A","R","Q","U","E","T">>

DsHinted == <<"h">>

DsPlain == <<"n">>

DsEmpty == <<"e">>

DsNoKeys == <<"m">>

\* The catalog document: dataset name -> entry; has_keys is FALSE for an
\* entry without "keys", format is None for an entry without "format"
Catalog ==
  [ds \in {DsHinted, DsPlain, DsEmpty, DsNoKeys} |->
     CASE ds = DsHinted -> [format |-> "parquet", has_keys |-> TRUE, keys |-> <<KeyCsv>>]
       [] ds = DsPlain -> [format |-> None, has_keys |-> TRUE, keys |-> <<KeyParquet, KeyCsv>>]
       [] ds = DsEmpty -> [format |-> "csv", has_keys |-> TRUE, keys |-> <<>>]
       [] OTHER -> [format |-> None, has_keys |-> FALSE, keys |-> <<>>]]

\* load_catalog() when the fetch or the parse fails: {}
EmptyCatalog == [ds \in {} |-> [format |-> None, has_keys |-> FALSE, keys |-> <<>>]]

\* load_catalog(): the parsed document, or {} on any failure
load_catalog == {Catalog, EmptyCatalog}

\* cat[ds].get("keys", [])
entry_keys(entry) == IF entry.has_keys THEN entry.keys ELSE <<>>

\* ------------------------------------------------------------------- state
VARIABLES
  pc,           \* position of the request: idle, resolve, connect, setup, try, done
  handler,      \* schema, preview or query
  body,         \* the request parameters
  cat,          \* the catalog load_catalog() returned to this request
  con,          \* the engine connection of this request: none, open, closed
  status,       \* HTTP status of the response, 0 before there is one
  table_exprs,  \* the resolved scan expressions
  executed,     \* con.execute(<query>) was called
  where_sql,    \* query(): where_sql
  order_sql,    \* query(): order_sql
  page_size,    \* query(): the LIMIT
  offset,       \* query(): the OFFSET
  sql,          \* the query text handed to the engine
  total,        \* number of rows of the ordered result before LIMIT / OFFSET
  rows,         \* positions (from 0) in that result of the rows returned
  columns       \* column names of the response

vars == <<pc, handler, body, cat, con, status, table_exprs, executed,
          where_sql, order_sql, page_size, offset, sql, total, rows, columns>>

\* Column names of an engine result
EngineColumns == << <<"T","i","c","k","e","r">> >>

NoBody ==
  [source |-> <<>>, datasets |-> <<>>, limit |-> 100, mode |-> "union", on |-> <<>>,
   select |-> <<>>, filters |-> <<>>, aggregations |-> <<>>, group_by |-> <<>>,
   order_by |-> [given |-> FALSE, items |-> <<>>], page |-> 1, page_size |-> 1000,
   coerce |-> "auto", columns_case |-> "lower"]

Init ==
  /\ pc = "idle"
  /\ handler = "none"
  /\ body = NoBody
  /\ cat = EmptyCatalog
  /\ con = "none"
  /\ status = 0
  /\ table_exprs = <<>>
  /\ executed = FALSE
  /\ where_sql = <<>>
  /\ order_sql = <<>>
  /\ page_size = 0
  /\ offset = 0
  /\ sql = <<>>
  /\ total = 0
  /\ rows = {}
  /\ columns = <<>>

\* ------------------------------------------------------- handler internals
\* schema(): the url list built before the connection (lines 195-202)
schema_urls(source, c) ==
  IF source \in DOMAIN c
  THEN <<r2_signed_url(entry_keys(c[source])[1])>>
  ELSE <<r2_signed_url(source)>>

\* schema(): fmt (lines 193-196)
schema_fmt(source, c) == IF source \in DOMAIN c THEN c[source].format ELSE None

\* preview(): limit
preview_limit(b) ==
  LET m == IF b.limit < 2000 THEN b.limit ELSE 2000
  IN IF m > 1 THEN m ELSE 1

\* preview(): the scan expressions of items, in order (lines 235-242)
RECURSIVE preview_items(_, _, _)
preview_items(datasets, c, coerce) ==
  IF datasets = <<>> THEN <<>>
  ELSE LET ds == Head(datasets)
           here == IF ds \in DOMAIN c
                   THEN [i \in 1..Len(entry_keys(c[ds])) |->
                           read_table_sql(r2_signed_url(entry_keys(c[ds])[i]),
                                          c[ds].format, coerce)]
                   ELSE <<read_table_sql(r2_signed_url(ds), None, coerce)>>
       IN here \o preview_items(Tail(datasets), c, coerce)

\* query(): the dataset loop (lines 298-312); error is 404 when an entry
\* has no keys, else 0 and exprs is table_exprs
RECURSIVE query_tables(_, _, _)
query_tables(datasets, c, coerce) ==
  IF datasets = <<>> THEN [error |-> 0, exprs |-> <<>>]
  ELSE LET ds == Head(datasets)
       IN IF ds \in DOMAIN c /\ entry_keys(c[ds]) = <<>>
          THEN [error |-> 404, exprs |-> <<>>]
          ELSE LET here == IF ds \in DOMAIN c
                           THEN [i \in 1..Len(entry_keys(c[ds])) |->
                                   read_table_sql(r2_signed_url(entry_keys(c[ds])[i]),
                                                  c[ds].format, coerce)]
                           ELSE <<read_table_sql(r2_signed_url(ds), None, coerce)>>
                   rest == query_tables(Tail(datasets), c, coerce)
               IN IF rest.error # 0 THEN rest
                  ELSE [error |-> 0, exprs |-> here \o rest.exprs]

\* query(): page = max(1, int(body.get("page", 1)))
query_page(b) == IF b.page > 1 THEN b.page ELSE 1

\* query(): page_size = min(10_000, max(1, int(body.get("page_size", 1000))))
query_page_size(b) ==
  LET m == IF b.page_size > 1 THEN b.page_size ELSE 1
  IN IF m < 10000 THEN m ELSE 10000

\* The offset taken as page * page_size
query_offset_from_page(b) == query_page(b) * query_page_size(b)

\* query(): offset = (page - 1) * page_size
query_offset(b) == (query_page(b) - 1) * query_page_size(b)

\* query(): the HTTPException(400, ...) raised inside the try block by the
\* base relation (lines 317-334)
mode_raises(b, texprs) ==
  \/ b.mode = "join" /\ (Len(texprs) < 2 \/ b.on = <<>>)
  \/ b.mode \notin {"union", "join"}

\* query(): on_clause of table i (line 329)
on_clause(i, on_keys) ==
  Join(<<" AND ">>,
       [j \in 1..Len(on_keys) |->
          <<"coalesce(t0.">> \o quote_ident(on_keys[j]) \o <<", t0.">>
            \o quote_ident(Lower(on_keys[j])) \o <<") = coalesce(t">> \o IntStr(i)
            \o <<".">> \o quote_ident(on_keys[j]) \o <<", t">> \o IntStr(i) \o <<".">>
            \o quote_ident(Lower(on_keys[j])) \o <<")">>])

\* query(): the LEFT JOIN tail of join_sql for tables i.. (lines 328-330)
RECURSIVE join_tail(_, _, _)
join_tail(texprs, i, on_keys) ==
  IF i > Len(texprs) THEN <<>>
  ELSE <<"LEFT JOIN ">> \o texprs[i] \o <<" t">> \o IntStr(i - 1) \o <<" ON ">>
         \o on_clause(i - 1, on_keys) \o <<" ">> \o join_tail(texprs, i + 1, on_keys)

\* query(): base_cte, when mode_raises is FALSE (lines 317-332)
base_cte(b, texprs) ==
  IF b.mode = "union"
  THEN <<"base AS (">>
         \o Join(<<" UNION BY NAME ALL ">>,
                 [i \in 1..Len(texprs) |-> <<"SELECT * FROM ">> \o texprs[i]])
         \o <<")">>
  ELSE <<"base AS (">> \o <<"SELECT * FROM ">> \o texprs[1] \o <<" t0 ">>
         \o join_tail(texprs, 2, b.on) \o <<")">>

\* query(): a filter of the list raises (line 339)
filters_raise(b) ==
  \E i \in 1..Len(b.filters) : build_filter_sql(b.filters[i]).raised

\* query(): where_sql (lines 337-340)
query_where(b) ==
  IF b.filters # <<>>
  THEN <<" WHERE ">>
         \o Join(<<" AND ">>,
                 [i \in 1..Len(b.filters) |-> build_filter_sql(b.filters[i]).text])
  ELSE <<>>

\* query(): agg_parts (lines 351-356)
agg_parts(b) ==
  [i \in 1..Len(b.aggregations) |->
     b.aggregations[i].expr \o <<" AS ">> \o quote_ident(b.aggregations[i].alias)]

\* query(): the select list, select_sql or proj (lines 343-367)
query_select(b) ==
  IF b.aggregations # <<>> /\ b.group_by = <<>>
  THEN Join(<<", ">>, agg_parts(b))
  ELSE IF b.aggregations # <<>>
  THEN Join(<<", ">>, [i \in 1..Len(b.group_by) |-> quote_ident(b.group_by[i])]
                        \o agg_parts(b))
  ELSE IF b.select # <<>>
  THEN Join(<<", ">>, [i \in 1..Len(b.select) |-> quote_ident(b.select[i])])
  ELSE <<"*">>

\* query(): order_sql (line 370)
query_order(b) ==
  ensure_order_by(IF b.select # <<>> THEN b.select ELSE b.group_by, b.order_by)

\* query(): limit_sql (line 372)
limit_sql(b) ==
  <<" LIMIT ">> \o IntStr(query_page_size(b)) \o <<" OFFSET ">> \o IntStr(query_offset(b))

\* query(): the final statement (lines 375-378)
query_sql(b, texprs) ==
  IF b.aggregations # <<>> /\ b.group_by # <<>>
  THEN <<"WITH ">> \o base_cte(b, texprs) \o <<" SELECT ">> \o query_select(b)
         \o <<" ">> \o <<"FROM base">> \o <<" ">> \o query_where(b) \o <<" ">>
         \o <<" GROUP BY ">>
         \o Join(<<", ">>, [i \in 1..Len(b.group_by) |-> quote_ident(b.group_by[i])])
         \o <<" ">> \o query_order(b) \o <<" ">> \o limit_sql(b)
  ELSE <<"WITH ">> \o base_cte(b, texprs) \o <<" SELECT ">> \o query_select(b)
         \o <<" ">> \o <<"FROM base">> \o <<" ">> \o query_where(b) \o <<" ">>
         \o query_order(b) \o <<" ">> \o limit_sql(b)

\* The engine's LIMIT l OFFSET o over an ordered result of count rows:
\* the positions (from 0) it returns
Window(count, l, o) == {i \in 0..(count - 1) : o <= i /\ i < o + l}

\* The engine's row count before LIMIT: n rows pass the WHERE clause and
\* fall into g groups
result_total(b, n, g) ==
  IF b.aggregations # <<>> /\ b.group_by = <<>> THEN 1
  ELSE IF b.aggregations # <<>> THEN g
  ELSE n

\* ------------------------------------------------------------------ actions
Finish(code) ==
  /\ status' = code
  /\ pc' = "done"

\* A request arrives at a handler
Request(pool) ==
  /\ pc = "idle"
  /\ \E r \in pool :
       /\ handler' = r.handler
       /\ body' = r.body
  /\ pc' = "resolve"
  /\ UNCHANGED <<cat, con, status, table_exprs, executed, where_sql, order_sql,
                 page_size, offset, sql, total, rows, columns>>

\* schema(): lines 192-202
SchemaResolve ==
  /\ pc = "resolve"
  /\ handler = "schema"
  /\ \E c \in load_catalog :
       /\ cat' = c
       /\ IF body.source \in DOMAIN c /\ entry_keys(c[body.source]) = <<>>
          THEN Finish(404)
          ELSE pc' = "connect" /\ UNCHANGED status
  /\ UNCHANGED <<handler, body, con, table_exprs, executed, where_sql, order_sql,
                 page_size, offset, sql, total, rows, columns>>

\* preview(): lines 226-242
PreviewResolve ==
  /\ pc = "resolve"
  /\ handler = "preview"
  /\ IF body.datasets = <<>>
     THEN Finish(400) /\ UNCHANGED <<cat, table_exprs>>
     ELSE \E c \in load_catalog :
            /\ cat' = c
            /\ table_exprs' = preview_items(body.datasets, c, body.coerce)
            /\ pc' = "connect"
            /\ UNCHANGED status
  /\ UNCHANGED <<handler, body, con, executed, where_sql, order_sql,
                 page_size, offset, sql, total, rows, columns>>

\* query(): lines 279-312
QueryResolve ==
  /\ pc = "resolve"
  /\ handler = "query"
  /\ \E c \in load_catalog :
       /\ cat' = c
       /\ IF body.datasets = <<>>
          THEN Finish(400) /\ UNCHANGED table_exprs
          ELSE LET r == query_tables(body.datasets, c, body.coerce)
               IN IF r.error # 0
                  THEN Finish(r.error) /\ UNCHANGED table_exprs
                  ELSE /\ table_exprs' = r.exprs
                       /\ pc' = "connect"
                       /\ UNCHANGED status
  /\ page_size' = query_page_size(body)
  /\ UNCHANGED <<handler, body, con, executed, where_sql, order_sql,
                 offset, sql, total, rows, columns>>

\* new_conn(): con = duckdb.connect()
Connect ==
  /\ pc = "connect"
  /\ con' = "open"
  /\ pc' = "setup"
  /\ UNCHANGED <<handler, body, cat, status, table_exprs, executed, where_sql,
                 order_sql, page_size, offset, sql, total, rows, columns>>

\* new_conn(): the INSTALL / LOAD / SET / PRAGMA statements succeed and the
\* connection is returned
SetupOk ==
  /\ pc = "setup"
  /\ pc' = "try"
  /\ UNCHANGED <<handler, body, cat, con, status, table_exprs, executed, where_sql,
                 order_sql, page_size, offset, sql, total, rows, columns>>

\* new_conn(): one of the setup statements raises; the exception leaves
\* new_conn and the handler, which called it outside its try block
SetupFail ==
  /\ pc = "setup"
  /\ Finish(500)
  /\ UNCHANGED <<handler, body, cat, con, table_exprs, executed, where_sql,
                 order_sql, page_size, offset, sql, total, rows, columns>>

\* schema(): the try / except / finally block (lines 205-213)
SchemaTry ==
  /\ pc = "try"
  /\ handler = "schema"
  /\ table_exprs' = <<read_table_sql(schema_urls(body.source, cat)[1],
                                     schema_fmt(body.source, cat), body.coerce)>>
  /\ sql' = <<"SELECT * FROM ">> \o table_exprs'[1] \o <<" LIMIT 1">>
  /\ executed' = TRUE
  /\ \E ok \in BOOLEAN :
       IF ok
       THEN columns' = EngineColumns /\ Finish(200)
       ELSE UNCHANGED columns /\ Finish(500)
  /\ con' = "closed"
  /\ UNCHANGED <<handler, body, cat, where_sql, order_sql, page_size, offset, total, rows>>

\* preview(): the try / except / finally block (lines 245-255)
PreviewTry ==
  /\ pc = "try"
  /\ handler = "preview"
  /\ sql' = <<"SELECT * FROM (">>
              \o Join(<<" UNION BY NAME ALL ">>,
                      [i \in 1..Len(table_exprs) |-> <<"SELECT * FROM ">> \o table_exprs[i]])
              \o <<") LIMIT ">> \o IntStr(preview_limit(body))
  /\ executed' = TRUE
  /\ \E ok \in BOOLEAN, n \in 0..MaxRows :
       IF ok /\ table_exprs # <<>>
       THEN /\ total' = n
            /\ rows' = Window(n, preview_limit(body), 0)
            /\ columns' = normalize_cols(EngineColumns, body.columns_case)
            /\ Finish(200)
       ELSE /\ UNCHANGED <<total, rows, columns>>
            /\ Finish(500)
  /\ con' = "closed"
  /\ UNCHANGED <<handler, body, cat, table_exprs, where_sql, order_sql, page_size, offset>>

\* query(): the try / except / finally block (lines 315-392)
QueryTry ==
  /\ pc = "try"
  /\ handler = "query"
  /\ IF mode_raises(body, table_exprs) \/ filters_raise(body)
     THEN /\ Finish(500)
          /\ UNCHANGED <<executed, where_sql, order_sql, offset, sql, total, rows, columns>>
     ELSE /\ where_sql' = query_where(body)
          /\ order_sql' = query_order(body)
          /\ offset' = query_offset(body)
          /\ sql' = query_sql(body, table_exprs)
          /\ executed' = TRUE
          /\ \E ok \in BOOLEAN, n \in 0..MaxRows, g \in 0..MaxRows :
               /\ (g = 0) <=> (n = 0)
               /\ g <= n
               /\ IF ok
                  THEN /\ total' = result_total(body, n, g)
                       /\ rows' = Window(total', page_size, offset')
                       /\ columns' = normalize_cols(EngineColumns, body.columns_case)
                       /\ Finish(200)
                  ELSE /\ UNCHANGED <<total, rows, columns>>
                       /\ Finish(500)
  /\ con' = "closed"
  /\ UNCHANGED <<handler, body, cat, table_exprs, page_size>>

\* The response is sent; the worker takes the next request
Respond ==
  /\ pc = "done"
  /\ pc' = "idle"
  /\ handler' = "none"
  /\ body' = NoBody
  /\ cat' = EmptyCatalog
  /\ con' = "none"
  /\ status' = 0
  /\ table_exprs' = <<>>
  /\ executed' = FALSE
  /\ where_sql' = <<>>
  /\ order_sql' = <<>>
  /\ page_size' = 0
  /\ offset' = 0
  /\ sql' = <<>>
  /\ total' = 0
  /\ rows' = {}
  /\ columns' = <<>>

\* ----------------------------------------------------------- request pools
\* Sequences over S of length 0..n
RECURSIVE SeqsUpTo(_, _)
SeqsUpTo(S, n) ==
  IF n = 0 THEN {<<>>}
  ELSE LET shorter == SeqsUpTo(S, n - 1)
       IN shorter \cup {Append(q, x) : q \in shorter, x \in S}

DatasetNames ==
  {DsHinted, DsPlain, DsEmpty, DsNoKeys, KeyParquet, KeyParquetUpper, KeyCsv}

DatasetLists == SeqsUpTo(DatasetNames, MaxDatasets)

ColA == <<"c">>

ColB == <<"x","\"","y">>

AggCount == [alias |-> <<"n">>, expr |-> <<"c","o","u","n","t","(","*",")">>]

\* Requests of the three handlers: every dataset list, mode, join key list,
\* aggregation shape and page
Requests ==
  {[handler |-> "schema", body |-> [NoBody EXCEPT !.source = src, !.coerce = co]] :
     src \in DatasetNames, co \in {"all_varchar", "auto"}}
  \cup
  {[handler |-> "preview",
    body |-> [NoBody EXCEPT !.datasets = d, !.limit = l, !.coerce = "all_varchar",
                            !.columns_case = cs]] :
     d \in DatasetLists, l \in {0, 2, 2001}, cs \in {"lower", "preserve"}}
  \cup
  {[handler |-> "query",
    body |-> [NoBody EXCEPT !.datasets = d, !.mode = m, !.on = o, !.aggregations = a,
                            !.group_by = g, !.page = p, !.page_size = 2, !.coerce = co]] :
     d \in DatasetLists, m \in {"union", "join", "cross"}, o \in {<<>>, <<ColA>>},
     a \in {<<>>, <<AggCount>>}, g \in {<<>>, <<ColA>>}, p \in {1, 2},
     co \in {"all_varchar", "auto"}}

\* Scalars of a filter value
Scalars ==
  {PyInt(7), PyInt(-12), PyFloat(15), PyBool(TRUE), PyBool(FALSE), PyNone,
   PyStrVal(<<"a">>), PyStrVal(<<"o","'","k">>), PyStrVal(<<"'","'">>)}

FilterValues == Scalars \cup {PyList(l) : l \in SeqsUpTo(Scalars, MaxListLen)}

FilterOps ==
  {<<"=">>, <<"!","=">>, <<">">>, <<">","=">>, <<"<">>, <<"<","=">>,
   <<"i","n">>, <<" ","I","N"," ">>, <<"n","o","t"," ","i","n">>,
   <<"L","i","k","e">>, <<"b","e","t","w","e","e","n">>,
   <<"=","="," ","c"," ","O","R"," ","c"," ","=">>,
   <<"i","l","i","k","e">>, <<>>}

Filters ==
  {[has_col |-> TRUE, col |-> c, has_op |-> TRUE, op |-> o, value |-> v] :
     c \in {ColA, ColB}, o \in FilterOps, v \in FilterValues}
  \cup
  {[has_col |-> TRUE, col |-> ColA, has_op |-> FALSE, op |-> <<>>, value |-> v] :
     v \in FilterValues}
  \cup
  {[has_col |-> FALSE, col |-> <<>>, has_op |-> TRUE, op |-> <<"=">>, value |-> PyInt(7)]}

\* /query requests over one dataset that differ in their filter
FilterRequests ==
  {[handler |-> "query",
    body |-> [NoBody EXCEPT !.datasets = <<KeyCsv>>, !.filters = <<f>>]] :
     f \in Filters}

OrderDirs ==
  {<<"a","s","c">>, <<"d","e","s","c">>, <<"D","E","S","C">>, <<"D","e","s","c">>,
   <<"u","p">>, <<" ","d","e","s","c">>, <<>>}

OrderEntries ==
  {[col |-> c, has_dir |-> TRUE, dir |-> d] : c \in {ColA, ColB}, d \in OrderDirs}
  \cup
  {[col |-> c, has_dir |-> FALSE, dir |-> <<>>] : c \in {ColA, ColB}}

OrderBys ==
  {[given |-> FALSE, items |-> <<>>]}
  \cup {[given |-> TRUE, items |-> l] : l \in SeqsUpTo(OrderEntries, MaxOrderBy)}

\* /query requests over one dataset that differ in select, group_by, order_by
OrderRequests ==
  {[handler |-> "query",
    body |-> [NoBody EXCEPT !.datasets = <<KeyCsv>>, !.select = sel, !.group_by = g,
                            !.order_by = ob]] :
     sel \in {<<>>, <<ColB, ColA>>}, g \in {<<>>, <<ColA, ColB>>}, ob \in OrderBys}

PageValues == (0 - 1)..MaxPage

PageSizeValues == ((0 - 1)..MaxSmallSize) \cup {9999, 10000, 10001}

\* /query requests over one dataset that differ in page, page_size and shape
PageRequests ==
  {[handler |-> "query",
    body |-> [NoBody EXCEPT !.datasets = <<KeyCsv>>, !.page = p, !.page_size = ps,
                            !.select = sel, !.filters = fl]] :
     p \in PageValues, ps \in PageSizeValues, sel \in {<<>>, <<ColA>>},
     fl \in {<<>>, <<[has_col |-> TRUE, col |-> ColA, has_op |-> TRUE, op |-> <<">">>,
                      value |-> PyInt(7)]>>}}

\* ---------------------------------------------------------- specifications
Next ==
  \/ Request(Requests)
  \/ SchemaResolve
  \/ PreviewResolve
  \/ QueryResolve
  \/ Connect
  \/ SetupOk
  \/ SetupFail
  \/ SchemaTry
  \/ PreviewTry
  \/ QueryTry
  \/ Respond

Spec == Init /\ [][Next]_vars

NextFilter ==
  \/ Request(FilterRequests)
  \/ QueryResolve
  \/ Connect
  \/ SetupOk
  \/ SetupFail
  \/ QueryTry
  \/ Respond

SpecFilter == Init /\ [][NextFilter]_vars

NextOrder ==
  \/ Request(OrderRequests)
  \/ QueryResolve
  \/ Connect
  \/ SetupOk
  \/ SetupFail
  \/ QueryTry
  \/ Respond

SpecOrder == Init /\ [][NextOrder]_vars

NextPage ==
  \/ Request(PageRequests)
  \/ QueryResolve
  \/ Connect
  \/ SetupOk
  \/ SetupFail
  \/ QueryTry
  \/ Respond

SpecPage == Init /\ [][NextPage]_vars

\* ------------------------------------------------------------------ claims
\* The request went through the handler's try block
TryDone == pc = "done" /\ con = "closed"

\* C1: when a request of /schema, /preview or /query finishes, the engine
\* connection it opened has been closed, on every exit path.
C1_ConnectionClosedAtExit == pc = "done" => con # "open"

\* The operator of a filter after upper-casing and trimming
C2_Op(f) == Strip(Upper(IF f.has_op THEN f.op ELSE <<"=">>))

\* The value of f has the wrong arity for its operator
C2_Malformed(f) ==
  \/ C2_Op(f) \in {<<"I","N">>, <<"N","O","T"," ","I","N">>} /\ f.value.t # "list"
  \/ C2_Op(f) = <<"B","E","T","W","E","E","N">>
       /\ ~(f.value.t = "list" /\ Len(f.value.l) = 2)
  \/ C2_Op(f) \notin {<<"I","N">>, <<"N","O","T"," ","I","N">>, <<"B","E","T","W","E","E","N">>}
       /\ f.value.t = "list"

\* C2: a /query request with a filter whose value has the wrong arity for
\* its operator is rejected with a 400-class status and no predicate text
\* is compiled for it.
C2_MalformedFilterRejected ==
  (TryDone /\ handler = "query"
     /\ \E i \in 1..Len(body.filters) :
          body.filters[i].has_col /\ C2_Malformed(body.filters[i]))
  => (status \in 400..499 /\ where_sql = <<>>)

\* C3: a /query request whose mode is join with fewer than 2 table
\* expressions, join without 'on' keys, or neither union nor join, ends with
\* status 400 and no query is executed.
C3_ModeErrorsAre400 ==
  (TryDone /\ handler = "query"
     /\ \/ body.mode = "join" /\ Len(table_exprs) < 2
        \/ body.mode = "join" /\ body.on = <<>>
        \/ body.mode \notin {"union", "join"})
  => (status = 400 /\ ~executed)

\* C4: a successful /query with aggregations and no group_by returns
\* exactly 1 row, for every page >= 1 and page_size in 1..10000.
C4_AggregateYieldsOneRow ==
  (pc = "done" /\ handler = "query" /\ status = 200
     /\ body.aggregations # <<>> /\ body.group_by = <<>>
     /\ body.page >= 1 /\ body.page_size \in 1..10000)
  => Cardinality(rows) = 1

C5_Max(a, b) == IF a >= b THEN a ELSE b

C5_Min(a, b) == IF a <= b THEN a ELSE b

C5_L == C5_Min(10000, C5_Max(1, body.page_size))

C5_P == C5_Max(1, body.page)

\* C5: /query emits LIMIT L OFFSET O with L = min(10000, max(1, page_size)),
\* P = max(1, page), O = (P - 1) * L, 1 <= L <= 10000 and O >= 0; page P
\* returns exactly the rows at positions [(P-1)*L, P*L), so a row is on page
\* P exactly when its position div L is P - 1: the pages are disjoint and
\* cover the result without a gap.
C5_PaginationWindow ==
  (pc = "done" /\ handler = "query" /\ executed)
  => /\ page_size = C5_L
     /\ offset = (C5_P - 1) * C5_L
     /\ 1 <= page_size /\ page_size <= 10000 /\ offset >= 0
     /\ EndsWith(sql, <<" LIMIT ">> \o IntStr(C5_L) \o <<" OFFSET ">>
                        \o IntStr((C5_P - 1) * C5_L))
     /\ status = 200 =>
          /\ rows = {i \in 0..(total - 1) : (C5_P - 1) * C5_L <= i /\ i < C5_P * C5_L}
          /\ \A i \in 0..(total - 1) : (i \in rows) <=> ((i \div C5_L) + 1 = C5_P)

\* The request names a catalog dataset whose entry has no keys
C6_NamesEmptyEntry ==
  IF handler = "schema"
  THEN body.source \in DOMAIN cat /\ entry_keys(cat[body.source]) = <<>>
  ELSE \E i \in 1..Len(body.datasets) :
         body.datasets[i] \in DOMAIN cat /\ entry_keys(cat[body.datasets[i]]) = <<>>

\* C6: a request of /schema, /preview or /query that names a catalog
\* dataset with an empty or missing key list never goes on to build or
\* execute a query and ends with status 404.
C6_EmptyEntryIs404 ==
  (handler \in {"schema", "preview", "query"} /\ C6_NamesEmptyEntry)
  => /\ pc \notin {"connect", "setup", "try"}
     /\ ~executed
     /\ pc = "done" => status = 404

\* C5 happens: page 2 of size 2 over a result of 4 rows is its second half
C5_Witness ==
  /\ pc = "done" /\ handler = "query" /\ status = 200
  /\ body.page = 2 /\ body.page_size = 2
  /\ page_size = 2 /\ offset = 2
  /\ total = 4 /\ rows = {2, 3}

C7_HasParquetExtension(key) ==
  EndsWith(Lower(key), <<".","p","a","r","q","u","e","t">>)

\* The scan kind the format hint, or without one the key's extension, selects
C7_ExpectedKind(scan) ==
  IF scan.fmt # None
  THEN (IF scan.fmt = "parquet" THEN "parquet" ELSE "csv")
  ELSE (IF C7_HasParquetExtension(scan.key) THEN "parquet" ELSE "csv")

\* The storage keys a dataset list resolves to, each with its format hint
RECURSIVE C7_Scans(_, _)
C7_Scans(datasets, c) ==
  IF datasets = <<>> THEN <<>>
  ELSE LET ds == Head(datasets)
           here == IF ds \in DOMAIN c
                   THEN [i \in 1..Len(entry_keys(c[ds])) |->
                           [key |-> entry_keys(c[ds])[i], fmt |-> c[ds].format]]
                   ELSE <<[key |-> ds, fmt |-> None]>>
       IN here \o C7_Scans(Tail(datasets), c)

C7_RequestScans ==
  IF handler = "schema"
  THEN (IF body.source \in DOMAIN cat
        THEN <<[key |-> entry_keys(cat[body.source])[1], fmt |-> cat[body.source].format]>>
        ELSE <<[key |-> body.source, fmt |-> None]>>)
  ELSE C7_Scans(body.datasets, cat)

C7_Kind(texpr) == IF Head(texpr) = "parquet_scan('" THEN "parquet" ELSE "csv"

\* C7: every scan expression a handler produced is a columnar scan exactly
\* when the format hint says parquet or, without a hint, the storage key
\* ends in .parquet (in any case); a columnar scan does not depend on the
\* coercion policy.
C7_FormatSelection ==
  (handler \in {"schema", "preview", "query"} /\ table_exprs # <<>>)
  => /\ Len(table_exprs) = Len(C7_RequestScans)
     /\ \A i \in 1..Len(table_exprs) :
          /\ C7_Kind(table_exprs[i]) = C7_ExpectedKind(C7_RequestScans[i])
          /\ C7_Kind(table_exprs[i]) = "parquet" =>
               table_exprs[i] = <<"parquet_scan('">>
                                  \o r2_signed_url(C7_RequestScans[i].key) \o <<"')">>

\* quoteLiteral: numeric non-boolean values unquoted, every other value in
\* single quotes with embedded single quotes doubled
C8_QuoteLiteral(v) ==
  IF v.t \in {"int", "float"}
  THEN PyStr(v)
  ELSE <<"'">> \o Replace(PyStr(v), "'", <<"'", "'">>) \o <<"'">>

\* Collapse every doubled single quote
RECURSIVE C8_Undouble(_)
C8_Undouble(s) ==
  IF s = <<>> THEN <<>>
  ELSE IF Len(s) >= 2 /\ s[1] = "'" /\ s[2] = "'"
  THEN <<"'">> \o C8_Undouble(SubSeq(s, 3, Len(s)))
  ELSE <<Head(s)>> \o C8_Undouble(Tail(s))

C8_Unquote(s) == C8_Undouble(SubSeq(s, 2, Len(s) - 1))

\* The values a filter interpolates: the elements of an IN / NOT IN list,
\* the two bounds of BETWEEN, else the value
C8_Sites(f) ==
  IF C2_Op(f) \in {<<"I","N">>, <<"N","O","T"," ","I","N">>} /\ f.value.t = "list"
  THEN f.value.l
  ELSE IF C2_Op(f) = <<"B","E","T","W","E","E","N">> /\ f.value.t = "list"
          /\ Len(f.value.l) = 2
  THEN f.value.l
  ELSE <<f.value>>

\* The clause of f with every value rendered by quoteLiteral
C8_Clause(f) ==
  LET lit == [i \in 1..Len(C8_Sites(f)) |-> C8_QuoteLiteral(C8_Sites(f)[i])]
  IN IF C2_Op(f) \in {<<"I","N">>, <<"N","O","T"," ","I","N">>} /\ f.value.t = "list"
     THEN quote_ident(f.col) \o <<" ">> \o C2_Op(f) \o <<" (">> \o Join(<<", ">>, lit)
            \o <<")">>
     ELSE IF C2_Op(f) = <<"B","E","T","W","E","E","N">> /\ f.value.t = "list"
             /\ Len(f.value.l) = 2
     THEN quote_ident(f.col) \o <<" BETWEEN ">> \o lit[1] \o <<" AND ">> \o lit[2]
     ELSE quote_ident(f.col) \o <<" ">> \o C2_Op(f) \o <<" ">> \o lit[1]

\* C8: in the compiled WHERE clause every interpolated filter value (scalar,
\* IN / NOT IN element, BETWEEN bound) is rendered by the same rule: numeric
\* non-boolean values unquoted, all others single-quoted with embedded
\* quotes doubled, which un-quoting turns back into the original text.
C8_UniformLiteralQuoting ==
  (pc = "done" /\ handler = "query" /\ executed /\ body.filters # <<>>)
  => /\ where_sql = <<" WHERE ">>
                      \o Join(<<" AND ">>,
                              [i \in 1..Len(body.filters) |-> C8_Clause(body.filters[i])])
     /\ \A i \in 1..Len(body.filters) :
          \A j \in 1..Len(C8_Sites(body.filters[i])) :
            LET v == C8_Sites(body.filters[i])[j]
            IN v.t \notin {"int", "float"} =>
                 C8_Unquote(C8_QuoteLiteral(v)) = PyStr(v)

C9_ClosedOps ==
  {<<"=">>, <<"!","=">>, <<">">>, <<">","=">>, <<"<">>, <<"<","=">>, <<"I","N">>,
   <<"N","O","T"," ","I","N">>, <<"L","I","K","E">>, <<"B","E","T","W","E","E","N">>}

\* The clause of f with operator text o, the column identifier-quoted and
\* the values rendered as literals
C9_Clause(f, o) ==
  IF o \in {<<"I","N">>, <<"N","O","T"," ","I","N">>} /\ f.value.t = "list"
  THEN quote_ident(f.col) \o <<" ">> \o o \o <<" (">>
         \o Join(<<", ">>, [i \in 1..Len(f.value.l) |-> in_item_sql(f.value.l[i])])
         \o <<")">>
  ELSE IF o = <<"B","E","T","W","E","E","N">> /\ f.value.t = "list" /\ Len(f.value.l) = 2
  THEN quote_ident(f.col) \o <<" BETWEEN ">> \o between_sql(f.value.l[1])
         \o <<" AND ">> \o between_sql(f.value.l[2])
  ELSE quote_ident(f.col) \o <<" ">> \o o \o <<" ">> \o scalar_sql(f.value)

\* C9: the text between the quoted column and the literals of every
\* compiled filter is an operator of the closed set; a filter with any
\* other 'op' contributes no text to an executed query.
C9_OperatorFromClosedSet ==
  (pc = "done" /\ handler = "query" /\ executed /\ body.filters # <<>>)
  => /\ \A i \in 1..Len(body.filters) : C2_Op(body.filters[i]) \in C9_ClosedOps
     /\ \E os \in [1..Len(body.filters) -> C9_ClosedOps] :
          where_sql = <<" WHERE ">>
                        \o Join(<<" AND ">>,
                                [i \in 1..Len(body.filters) |->
                                   C9_Clause(body.filters[i], os[i])])

C10_Dir(ob) ==
  IF ob.has_dir /\ Upper(ob.dir) = <<"D","E","S","C">>
  THEN <<"D","E","S","C">>
  ELSE <<"A","S","C">>

C10_Fallback == IF body.select # <<>> THEN body.select ELSE body.group_by

C10_HasOrderBy == body.order_by.given /\ body.order_by.items # <<>>

====
